---------------------------- MODULE Spec2Model ----------------------------
(***************************************************************************)
(* South-East-Asian word breaking of crengine: the script dispatcher       *)
(* BreakSALine (linebreak_sa.cpp), the per-script engine singletons, and   *)
(* the BiLSTM engine LSTMBreakEngine::breakWord (lstmbe.cpp).              *)
(*                                                                         *)
(* Arrays keep the source's 0-based indices: a 1-D array is a function on  *)
(* 0..n-1, an owned 2-D array is a record [d1, d2, data] with row-major    *)
(* flat data, a borrowed view is a record [off, d1, d2] into the model's   *)
(* float blob.  Floats are fixed-point integers with FixedOne units per    *)
(* 1.0; sigmoid and tanh are their piecewise-linear (hard) forms on that   *)
(* grid.                                                                   *)
(***************************************************************************)
EXTENDS Integers, Sequences, FiniteSets, TLC

\* ------------------------------------------------------------------ bounds

\* Length of the generated texts.
MaxLen == 3

\* Number of concurrent callers.
NThreads == 2

\* Fixed-point units per 1.0.
FixedOne == 4

\* Largest array length and largest entry magnitude of the maxIndex inputs.
MaxArr == 4

MaxVal == 1

\* The longest range breakWord accepts (lstmbe.cpp:427).
MaxSeqLen == 2048

\* --------------------------------------------------------------- scripts

SALang == {"THAI", "LAO", "BURMESE", "KHMER", "UNK"}

Scripts == SALang \ {"UNK"}

classify_language(ch) ==
    IF 3584 <= ch /\ ch < 3712 THEN "THAI"          \* 0x0E00 .. 0x0E80
    ELSE IF 3712 <= ch /\ ch < 3840 THEN "LAO"      \* 0x0E80 .. 0x0F00
    ELSE IF 4096 <= ch /\ ch < 4256 THEN "BURMESE"  \* 0x1000 .. 0x10A0
    ELSE IF 6016 <= ch /\ ch < 6144 THEN "KHMER"    \* 0x1780 .. 0x1800
    ELSE "UNK"

\* LSTMClass
BEGIN == 0

INSIDE == 1

END == 2

SINGLE == 3

\* ------------------------------------------------- numeric primitives

Clamp(x, lo, hi) == IF x < lo THEN lo ELSE IF x > hi THEN hi ELSE x

\* a * b of two fixed-point numbers.
Mul(a, b) == (a * b) \div FixedOne

\* 1/(1+exp(-x)) on the grid: 0.5 + x/4 cut to [0, 1].
SigmoidOf(x) == Clamp((FixedOne \div 2) + (x \div 4), 0, FixedOne)

\* tanh(x) on the grid: x cut to [-1, 1].
TanhOf(x) == Clamp(x, 0 - FixedOne, FixedOne)

Zeros(n) == [k \in 0..(n - 1) |-> 0]

D1(a) == Cardinality(DOMAIN a)

\* ConstArray2D::get(i, j) of view V over the blob mem.
Get2(mem, V, i, j) == mem[V.off + i * V.d2 + j]

\* ConstArray2D::row(i)
ConstRow(mem, V, i) == [j \in 0..(V.d2 - 1) |-> mem[V.off + i * V.d2 + j]]

\* A ConstArray1D view read as an array.
ConstVec(mem, V) == [j \in 0..(V.d1 - 1) |-> mem[V.off + j]]

\* Array1D::slice(from, size), read side.
Slice(a, from, size) == [k \in 0..(size - 1) |-> a[from + k]]

\* A write through the slice (from, size) of a: the parent sees s.
SliceStore(a, from, s) ==
    [k \in DOMAIN a |-> IF from <= k /\ k < from + D1(s) THEN s[k - from] ELSE a[k]]

\* Array1D::assign
Assign(y, a) == [i \in DOMAIN y |-> a[i]]

\* Array1D::add
Add(y, a) == [i \in DOMAIN y |-> y[i] + a[i]]

\* Array1D::hadamardProduct
HadamardProduct(y, a) == [i \in DOMAIN y |-> Mul(y[i], a[i])]

\* Array1D::addHadamardProduct
AddHadamardProduct(y, a, b) == [i \in DOMAIN y |-> y[i] + Mul(a[i], b[i])]

RECURSIVE DotColumn(_, _, _, _, _)
\* The inner loop of addDotProduct for column i: sum over j < n of a[j]*b[j][i].
DotColumn(a, mem, B, i, n) ==
    IF n = 0 THEN 0
    ELSE DotColumn(a, mem, B, i, n - 1) + Mul(a[n - 1], Get2(mem, B, n - 1, i))

\* Array1D::addDotProduct
AddDotProduct(y, a, mem, B) ==
    [i \in DOMAIN y |-> y[i] + DotColumn(a, mem, B, i, D1(a))]

\* Array1D::tanh(a)
Tanh(a) == [i \in DOMAIN a |-> TanhOf(a[i])]

\* Array1D::sigmoid
Sigmoid(a) == [i \in DOMAIN a |-> SigmoidOf(a[i])]

\* Array1D::clear
Clear(a) == [i \in DOMAIN a |-> 0]

RECURSIVE MaxIndexFromLast(_, _, _, _)
\* maxIndex's loop with ">=" for ">": the last of several maxima wins.
MaxIndexFromLast(a, i, index, max) ==
    IF i >= D1(a) THEN index
    ELSE IF a[i] >= max THEN MaxIndexFromLast(a, i + 1, i, a[i])
    ELSE MaxIndexFromLast(a, i + 1, index, max)

RECURSIVE MaxIndexFrom(_, _, _, _)
\* The loop of maxIndex from position i with the running (index, max).
MaxIndexFrom(a, i, index, max) ==
    IF i >= D1(a) THEN index
    ELSE IF a[i] > max THEN MaxIndexFrom(a, i + 1, i, a[i])
    ELSE MaxIndexFrom(a, i + 1, index, max)

\* Array1D::maxIndex
MaxIndex(a) == MaxIndexFrom(a, 1, 0, a[0])

\* Array2D::row(i), read side.
Row(M, i) == Slice(M.data, i * M.d2, M.d2)

\* A write through Array2D::row(i).
RowStore(M, i, r) == [M EXCEPT !.data = SliceStore(M.data, i * M.d2, r)]

\* Array2D(d1, d2): calloc'ed.
NewArray2D(d1, d2) == [d1 |-> d1, d2 |-> d2, data |-> Zeros(d1 * d2)]

\* ----------------------------------------------------------- LSTM cell

\* compute(): one LSTM step; gives the new h, c and ifco.
Compute(hunits, mem, W, U, b, x, h, c, ifco) ==
    LET s0 == AddDotProduct(AddDotProduct(Assign(ifco, ConstVec(mem, b)), x, mem, W),
                            h, mem, U)
        s1 == SliceStore(s0, 0 * hunits, Sigmoid(Slice(s0, 0 * hunits, hunits)))
        s2 == SliceStore(s1, 1 * hunits, Sigmoid(Slice(s1, 1 * hunits, hunits)))
        s3 == SliceStore(s2, 2 * hunits, Tanh(Slice(s2, 2 * hunits, hunits)))
        s4 == SliceStore(s3, 3 * hunits, Sigmoid(Slice(s3, 3 * hunits, hunits)))
        c1 == AddHadamardProduct(HadamardProduct(c, Slice(s4, hunits, hunits)),
                                 Slice(s4, 0, hunits), Slice(s4, 2 * hunits, hunits))
        h1 == HadamardProduct(Tanh(c1), Slice(s4, 3 * hunits, hunits))
    IN [h |-> h1, c |-> c1, ifco |-> s4]

\* ------------------------------------------------------- model blobs

\* The code points the texts are made of: a Latin letter, two Thai letters and
\* a Khmer letter for the generated texts, a Lao and a Burmese letter, and the
\* ends of the four script intervals.
Alphabet == {65, 3585, 3586, 6016}

BoundaryPoints ==
    {3583, 3584, 3711, 3712, 3713, 3839, 3840, 4095, 4096, 4255, 4256, 6015, 6143, 6144}

CodePoints == Alphabet \cup BoundaryPoints

\* The length LSTMData expects of matrices for the given dimensions.
BlobLen(n, e, h) == (n + 1) * e + 2 * (e * 4 * h + h * 4 * h + 4 * h) + 2 * h * 4 + 4

\* A blob of struct lstm_data whose floats are all zero: every logit is equal.
ZeroBlob ==
    [num_index |-> 1, embedding_size |-> 1, hunits |-> 1,
     mapping |-> [cp \in CodePoints |-> cp % 2],
     matrices |-> Zeros(BlobLen(1, 1, 1))]

\* A blob of struct lstm_data with two hidden units, two embedding columns and
\* three character classes; its floats are spread over [-2.0, 2.0] by a fixed
\* pattern seeded with s.
PatternBlob(s) ==
    [num_index |-> 2, embedding_size |-> 2, hunits |-> 2,
     mapping |-> [cp \in CodePoints |-> cp % 3],
     matrices |-> [k \in 0..(BlobLen(2, 2, 2) - 1) |->
                      ((3 * (k + s) * (k + s) + 6 * (k + s)) % 17) - 8]]

ThaiPattern == PatternBlob(9)

LaoPattern == PatternBlob(8)

BurmesePattern == PatternBlob(7)

KhmerPattern == PatternBlob(5)

\* The families of blobs the four extern symbols lstm_model_thai ..
\* lstm_model_khmer may be linked to.
ModelFamilies == {"equal", "pattern"}

\* The blob behind the extern symbol of lang under a family.
Blob(fam, lang) ==
    IF fam = "equal" THEN ZeroBlob
    ELSE CASE lang = "THAI" -> ThaiPattern
           [] lang = "LAO" -> LaoPattern
           [] lang = "BURMESE" -> BurmesePattern
           [] OTHER -> KhmerPattern

\* LSTMData::LSTMData: the nine views carved out of model.matrices in order.
LSTMData(lang, model) ==
    LET mat1_size == (model.num_index + 1) * model.embedding_size
        mat2_size == model.embedding_size * 4 * model.hunits
        mat3_size == model.hunits * 4 * model.hunits
        mat4_size == 4 * model.hunits
        mat5_size == mat2_size
        mat6_size == mat3_size
        mat7_size == mat4_size
        mat8_size == 2 * model.hunits * 4
        o1 == 0
        o2 == o1 + mat1_size
        o3 == o2 + mat2_size
        o4 == o3 + mat3_size
        o5 == o4 + mat4_size
        o6 == o5 + mat5_size
        o7 == o6 + mat6_size
        o8 == o7 + mat7_size
        o9 == o8 + mat8_size
    IN [model |-> lang,
        fEmbedding |-> [off |-> o1, d1 |-> model.num_index + 1, d2 |-> model.embedding_size],
        fForwardW |-> [off |-> o2, d1 |-> model.embedding_size, d2 |-> 4 * model.hunits],
        fForwardU |-> [off |-> o3, d1 |-> model.hunits, d2 |-> 4 * model.hunits],
        fForwardB |-> [off |-> o4, d1 |-> 4 * model.hunits],
        fBackwardW |-> [off |-> o5, d1 |-> model.embedding_size, d2 |-> 4 * model.hunits],
        fBackwardU |-> [off |-> o6, d1 |-> model.hunits, d2 |-> 4 * model.hunits],
        fBackwardB |-> [off |-> o7, d1 |-> 4 * model.hunits],
        fOutputW |-> [off |-> o8, d1 |-> 2 * model.hunits, d2 |-> 4],
        fOutputB |-> [off |-> o9, d1 |-> 4]]

\* ------------------------------------- reference BiLSTM (two cell buffers)

RECURSIVE RefBackward(_, _, _, _)
\* The backward LSTM state [h, c] after stepping over positions L-1 .. i, from
\* a zero h and a zero cell state of its own.
RefBackward(mem, fData, indices, i) ==
    LET hunits == fData.fForwardU.d1
        prev == IF i = D1(indices) - 1 THEN [h |-> Zeros(hunits), c |-> Zeros(hunits)]
                ELSE RefBackward(mem, fData, indices, i + 1)
        r == Compute(hunits, mem, fData.fBackwardW, fData.fBackwardU, fData.fBackwardB,
                     ConstRow(mem, fData.fEmbedding, indices[i]),
                     prev.h, prev.c, Zeros(4 * hunits))
    IN [h |-> r.h, c |-> r.c]

RECURSIVE RefForward(_, _, _, _)
\* The forward LSTM state [h, c] after stepping over positions 0 .. i, from a
\* zero h and a zero cell state of its own.
RefForward(mem, fData, indices, i) ==
    LET hunits == fData.fForwardU.d1
        prev == IF i = 0 THEN [h |-> Zeros(hunits), c |-> Zeros(hunits)]
                ELSE RefForward(mem, fData, indices, i - 1)
        r == Compute(hunits, mem, fData.fForwardW, fData.fForwardU, fData.fForwardB,
                     ConstRow(mem, fData.fEmbedding, indices[i]),
                     prev.h, prev.c, Zeros(4 * hunits))
    IN [h |-> r.h, c |-> r.c]

\* The label a BiLSTM with separate forward and backward cell states decodes at i.
RefLabel(mem, fData, indices, i) ==
    LET hunits == fData.fForwardU.d1
        f == RefForward(mem, fData, indices, i).h
        b == RefBackward(mem, fData, indices, i).h
        fb == [k \in 0..(2 * hunits - 1) |-> IF k < hunits THEN f[k] ELSE b[k - hunits]]
    IN MaxIndex(AddDotProduct(ConstVec(mem, fData.fOutputB), fb, mem, fData.fOutputW))

\* ---------------------------------------------------------------- texts

\* A text is a sequence of runs [cp, n]: n copies of code point cp.
RECURSIVE TextLen(_)
TextLen(text) == IF text = <<>> THEN 0 ELSE Head(text).n + TextLen(Tail(text))

RECURSIVE TextAt(_, _)
\* text[p]
TextAt(text, p) ==
    IF p < Head(text).n THEN Head(text).cp ELSE TextAt(Tail(text), p - Head(text).n)

Run(cp, n) == [cp |-> cp, n |-> n]

\* Every text of MaxLen code points of the alphabet.
GenTexts == {[k \in 1..MaxLen |-> Run(f[k], 1)] : f \in [1..MaxLen -> Alphabet]}

\* Texts that sit on the ends of the four script intervals.
BoundaryTexts ==
    {<<Run(3583, 1), Run(3584, 1), Run(3711, 1)>>,
     <<Run(3711, 1), Run(3712, 1), Run(3839, 1)>>,
     <<Run(3839, 1), Run(3840, 1), Run(4095, 1)>>,
     <<Run(4096, 1), Run(4255, 1), Run(4256, 1)>>,
     <<Run(6015, 1), Run(6016, 1), Run(6143, 1)>>,
     <<Run(6143, 1), Run(6144, 1), Run(65, 1)>>,
     <<Run(3713, 1), Run(4096, 1), Run(6016, 1)>>,
     <<Run(4096, 2), Run(3713, 2)>>}

\* Thai followed at once by Khmer and then Latin; Thai between Latin words.
ScenarioTexts ==
    {<<Run(3585, 1), Run(3586, 1), Run(6016, 2), Run(65, 1)>>,
     <<Run(65, 2), Run(3585, 1), Run(3586, 2), Run(65, 2)>>}

\* Texts with a run at and past the engine's length cap, and the empty text.
LongTexts ==
    {<<>>,
     <<Run(3585, MaxSeqLen + 1), Run(6016, MaxSeqLen)>>,
     <<Run(3585, 3000)>>,
     <<Run(3585, 2), Run(3713, MaxSeqLen + 1), Run(6016, 2)>>}

\* Texts of the concurrent callers.
ConcTexts ==
    {<<Run(3585, 1), Run(3586, 1)>>,
     <<Run(3585, 1), Run(6016, 1)>>,
     <<Run(6016, 1), Run(65, 1)>>}

\* ---------------------------------------------------------------- state

Threads == 1..NThreads

VARIABLES
    family,      \* the blobs the four extern models are linked to
    guard,       \* per script: the state of the function-local static's guard
    singleton,   \* per script: the function-local static engine
    ctorCount,   \* per script: how many times the engine was constructed
    inp,         \* per thread: the call's arguments
    pc,          \* per thread: the position in the code
    sa,          \* per thread: the locals of BreakSALine
    eng,         \* per thread: the engine breakWord runs on
    bw,          \* per thread: the locals of breakWord
    callbacks,   \* per thread: the positions foundBreak received, in order
    calls,       \* per thread: the breakWord calls made, in order
    chunks,      \* per thread: the chunks the dispatcher closed, in order
    requested,   \* per thread: the scripts passed to get_break_engine_by_lang
    arr,         \* the array handed to maxIndex
    res          \* what maxIndex returned for arr (-1: not yet called)

vars == <<family, guard, singleton, ctorCount, inp, pc, sa, eng, bw, callbacks,
          calls, chunks, requested, arr, res>>

NoEngine == [model |-> "none"]

NoFrame == [live |-> FALSE]

NoCall == [mode |-> "none", text |-> <<>>, rangeStart |-> 0, rangeEnd |-> 0,
           wordLang |-> "THAI"]

NoLocals == [pos |-> 0, lang_chunk_start |-> 0, chunk_lang |-> "UNK", lang |-> "UNK",
             cont |-> "return", ret |-> 0]

\* The float memory engine e reads.
Mem(e) == Blob(family, e.model).matrices

\* ------------------------------------------------- engine singletons

\* get_break_engine_by_lang: the singleton the switch selects.
get_break_engine_by_lang(lang) ==
    CASE lang = "THAI" -> "THAI"
      [] lang = "LAO" -> "LAO"
      [] lang = "BURMESE" -> "BURMESE"
      [] lang = "KHMER" -> "KHMER"
      [] OTHER -> "THAI"

\* A static whose guard is not taken on entry: a second thread finds it
\* uninitialised while the first constructs.
GuardNotTaken == "uninit"

\* The guard of "static LSTMBreakEngine engine(data)" once a thread has found
\* it uninitialised: taken, so every other thread waits for the constructor.
GuardOnEntry == "constructing"

\* The call of a singleton function: returns the engine when it is
\* constructed, starts constructing it when nobody has, waits otherwise.
GetEngine(t) ==
    LET key == get_break_engine_by_lang(sa[t].chunk_lang) IN
    /\ pc[t] = "get_engine"
    /\ guard[key] # "constructing"
    /\ requested' = [requested EXCEPT ![t] = Append(@, sa[t].chunk_lang)]
    /\ IF guard[key] = "done"
       THEN /\ eng' = [eng EXCEPT ![t] = singleton[key]]
            /\ pc' = [pc EXCEPT ![t] = "bw_enter"]
            /\ guard' = guard
       ELSE /\ guard' = [guard EXCEPT ![key] = GuardOnEntry]
            /\ pc' = [pc EXCEPT ![t] = "construct"]
            /\ eng' = eng
    /\ UNCHANGED <<family, singleton, ctorCount, inp, sa, bw, callbacks, calls, chunks,
                   arr, res>>

\* LSTMBreakEngine::LSTMBreakEngine run for the static, then the guard is set.
Construct(t) ==
    LET key == get_break_engine_by_lang(sa[t].chunk_lang)
        e == LSTMData(key, Blob(family, key))
    IN
    /\ pc[t] = "construct"
    /\ singleton' = [singleton EXCEPT ![key] = e]
    /\ guard' = [guard EXCEPT ![key] = "done"]
    /\ ctorCount' = [ctorCount EXCEPT ![key] = @ + 1]
    /\ eng' = [eng EXCEPT ![t] = e]
    /\ pc' = [pc EXCEPT ![t] = "bw_enter"]
    /\ UNCHANGED <<family, inp, sa, bw, callbacks, calls, chunks, requested, arr, res>>

\* ------------------------------------------------------- BreakSALine

\* The caller's entry: BreakSALine sets up its locals; a caller of the engine
\* API constructs an engine of its own and calls breakWord on the range.
Start(t) ==
    /\ pc[t] = "start"
    /\ IF inp[t].mode = "line"
       THEN /\ sa' = [sa EXCEPT ![t] = [pos |-> inp[t].rangeStart,
                                         lang_chunk_start |-> inp[t].rangeStart,
                                         chunk_lang |-> "UNK", lang |-> "UNK",
                                         cont |-> "return", ret |-> 0]]
            /\ pc' = [pc EXCEPT ![t] = "loop"]
            /\ eng' = eng
       ELSE /\ eng' = [eng EXCEPT ![t] =
                          LSTMData(inp[t].wordLang, Blob(family, inp[t].wordLang))]
            /\ pc' = [pc EXCEPT ![t] = "bw_enter"]
            /\ sa' = sa
    /\ UNCHANGED <<family, guard, singleton, ctorCount, inp, bw, callbacks, calls,
                   chunks, requested, arr, res>>

\* The loop's flush without its UNK test.
LoopFlushAlways(chunk_lang) == TRUE

\* "if (chunk_lang != SALang::UNK)" inside the loop.
LoopFlushGuard(chunk_lang) == chunk_lang # "UNK"

\* The loop's flush ending one position late.
LoopFlushEndLate(pos) == pos + 1

\* The end of the range the loop flushes: pos.
LoopFlushEnd(pos) == pos

\* The chunk start left where it was.
ChunkStartKept(old, pos) == old

\* "lang_chunk_start = pos"
NewChunkStart(old, pos) == pos

\* The flush after the loop without its condition.
FinalFlushAlways(lang_chunk_start, rangeEnd, chunk_lang) == TRUE

\* The condition of the flush after the loop.
FinalFlushGuard(lang_chunk_start, rangeEnd, chunk_lang) ==
    lang_chunk_start # rangeEnd /\ chunk_lang # "UNK"

\* One iteration of the loop up to the engine call, or all of it when the
\* chunk does not end here or is not flushed.
LoopStep(t) ==
    LET l == sa[t]
        lang == classify_language(TextAt(inp[t].text, l.pos))
        flush == LoopFlushGuard(l.chunk_lang)
    IN
    /\ pc[t] = "loop"
    /\ l.pos < inp[t].rangeEnd
    /\ IF lang # l.chunk_lang
       THEN /\ chunks' = [chunks EXCEPT ![t] =
                   Append(@, [start |-> l.lang_chunk_start, end |-> LoopFlushEnd(l.pos),
                              lang |-> l.chunk_lang, flushed |-> flush])]
            /\ IF flush
               THEN /\ sa' = [sa EXCEPT ![t].lang = lang, ![t].cont = "loop_tail"]
                    /\ pc' = [pc EXCEPT ![t] = "get_engine"]
               ELSE /\ sa' = [sa EXCEPT ![t].lang = lang,
                                        ![t].chunk_lang = lang,
                                        ![t].lang_chunk_start =
                                            NewChunkStart(l.lang_chunk_start, l.pos),
                                        ![t].pos = l.pos + 1]
                    /\ pc' = pc
       ELSE /\ sa' = [sa EXCEPT ![t].lang = lang, ![t].pos = l.pos + 1]
            /\ UNCHANGED <<chunks, pc>>
    /\ UNCHANGED <<family, guard, singleton, ctorCount, inp, eng, bw, callbacks, calls,
                   requested, arr, res>>

\* The rest of the iteration after the engine call returned (its return value
\* is not read).
LoopTail(t) ==
    LET l == sa[t] IN
    /\ pc[t] = "loop_tail"
    /\ sa' = [sa EXCEPT ![t].chunk_lang = l.lang,
                        ![t].lang_chunk_start = NewChunkStart(l.lang_chunk_start, l.pos),
                        ![t].pos = l.pos + 1]
    /\ pc' = [pc EXCEPT ![t] = "loop"]
    /\ UNCHANGED <<family, guard, singleton, ctorCount, inp, eng, bw, callbacks, calls,
                   chunks, requested, arr, res>>

\* The loop ends: the last chunk is flushed if it is not empty and not UNK.
LoopExit(t) ==
    LET l == sa[t]
        flush == FinalFlushGuard(l.lang_chunk_start, inp[t].rangeEnd, l.chunk_lang)
    IN
    /\ pc[t] = "loop"
    /\ ~(l.pos < inp[t].rangeEnd)
    /\ chunks' = [chunks EXCEPT ![t] =
           Append(@, [start |-> l.lang_chunk_start, end |-> inp[t].rangeEnd,
                      lang |-> l.chunk_lang, flushed |-> flush])]
    /\ sa' = [sa EXCEPT ![t].cont = "return"]
    /\ pc' = [pc EXCEPT ![t] = IF flush THEN "get_engine" ELSE "return"]
    /\ UNCHANGED <<family, guard, singleton, ctorCount, inp, eng, bw, callbacks, calls,
                   requested, arr, res>>

\* BreakSALine's "return 0"; the caller of the engine API gets breakWord's value.
Return(t) ==
    /\ pc[t] = "return"
    /\ sa' = [sa EXCEPT ![t].ret = IF inp[t].mode = "line" THEN 0
                                   ELSE calls[t][Len(calls[t])].ret]
    /\ pc' = [pc EXCEPT ![t] = "done"]
    /\ UNCHANGED <<family, guard, singleton, ctorCount, inp, eng, bw, callbacks, calls,
                   chunks, requested, arr, res>>

\* --------------------------------------------------------- breakWord

\* The (startPos, endPos) of the breakWord call thread t is about to make.
CallArgs(t) ==
    IF inp[t].mode = "line"
    THEN IF sa[t].cont = "loop_tail"
         THEN [startPos |-> sa[t].lang_chunk_start, endPos |-> LoopFlushEnd(sa[t].pos)]
         ELSE [startPos |-> sa[t].lang_chunk_start, endPos |-> inp[t].rangeEnd]
    ELSE [startPos |-> inp[t].rangeStart, endPos |-> inp[t].rangeEnd]

\* Where breakWord returns to.
CallCont(t) == IF inp[t].mode = "line" THEN sa[t].cont ELSE "return"

\* The length check with ">=" for ">".
TooLongAtCap(input_seq_len) == input_seq_len >= MaxSeqLen

\* "if (input_seq_len > 2048)"
TooLong(input_seq_len) == input_seq_len > MaxSeqLen

\* The callback without its "i != 0" test.
ReportAlways(i) == TRUE

\* "if (i != 0)" around the callback.
ReportAt(i) == i # 0

\* The forward pass starting from the cell state the backward pass left.
ForwardCellKept(c) == c

\* "c.clear()" before the forward pass.
ForwardCellInit(c) == Clear(c)

\* breakWord up to the first loop: the length check, the vectoriser, the
\* allocation of the working arrays.
BreakWordEnter(t) ==
    LET a == CallArgs(t)
        input_seq_len == a.endPos - a.startPos
        hunits == eng[t].fForwardU.d1
        call == [lang |-> eng[t].model, startPos |-> a.startPos, endPos |-> a.endPos,
                 cbFrom |-> Len(callbacks[t]), labels |-> <<>>]
    IN
    /\ pc[t] = "bw_enter"
    /\ IF TooLong(input_seq_len)
       THEN /\ calls' = [calls EXCEPT ![t] =
                   Append(@, call @@ [ret |-> -1, fin |-> TRUE, alloc |-> FALSE])]
            /\ pc' = [pc EXCEPT ![t] = CallCont(t)]
            /\ bw' = bw
       ELSE /\ calls' = [calls EXCEPT ![t] =
                   Append(@, call @@ [ret |-> 0, fin |-> FALSE, alloc |-> TRUE])]
            /\ bw' = [bw EXCEPT ![t] =
                   [live |-> TRUE,
                    startPos |-> a.startPos,
                    input_seq_len |-> input_seq_len,
                    indices |-> [i \in 0..(input_seq_len - 1) |->
                        Blob(family, eng[t].model).mapping[
                            TextAt(inp[t].text, a.startPos + i)]],
                    hunits |-> hunits,
                    ifco |-> Zeros(4 * hunits),
                    c |-> Zeros(hunits),
                    logp |-> Zeros(4),
                    hBackward |-> NewArray2D(input_seq_len, hunits),
                    fbRow |-> Zeros(2 * hunits),
                    i |-> input_seq_len - 1]]
            /\ pc' = [pc EXCEPT ![t] = "bw_back"]
    /\ UNCHANGED <<family, guard, singleton, ctorCount, inp, sa, eng, callbacks, chunks,
                   requested, arr, res>>

\* A variant initialising row i of hBackward from itself.
InitRowFromSelf(i) == i

\* The row of hBackward that row i is initialised from before its step.
InitRowFrom(i) == i + 1

\* One iteration of the backward LSTM loop.
BackwardStep(t) ==
    LET f == bw[t]
        e == eng[t]
        hRow == IF f.i # f.input_seq_len - 1
                THEN Assign(Row(f.hBackward, f.i), Row(f.hBackward, InitRowFrom(f.i)))
                ELSE Row(f.hBackward, f.i)
        r == Compute(f.hunits, Mem(e), e.fBackwardW, e.fBackwardU, e.fBackwardB,
                     ConstRow(Mem(e), e.fEmbedding, f.indices[f.i]),
                     hRow, f.c, f.ifco)
    IN
    /\ pc[t] = "bw_back"
    /\ f.i >= 0
    /\ bw' = [bw EXCEPT ![t].hBackward = RowStore(f.hBackward, f.i, r.h),
                        ![t].c = r.c,
                        ![t].ifco = r.ifco,
                        ![t].i = f.i - 1]
    /\ UNCHANGED <<family, guard, singleton, ctorCount, inp, pc, sa, eng, callbacks,
                   calls, chunks, requested, arr, res>>

\* The backward loop ends: fbRow is sliced in two, c is cleared for reuse.
ForwardInit(t) ==
    LET f == bw[t] IN
    /\ pc[t] = "bw_back"
    /\ ~(f.i >= 0)
    /\ bw' = [bw EXCEPT ![t].c = ForwardCellInit(f.c), ![t].i = 0]
    /\ pc' = [pc EXCEPT ![t] = "bw_fwd"]
    /\ UNCHANGED <<family, guard, singleton, ctorCount, inp, sa, eng, callbacks, calls,
                   chunks, requested, arr, res>>

\* One iteration of the fused forward LSTM and output loop, with its callback.
ForwardStep(t) ==
    LET f == bw[t]
        e == eng[t]
        r == Compute(f.hunits, Mem(e), e.fForwardW, e.fForwardU, e.fForwardB,
                     ConstRow(Mem(e), e.fEmbedding, f.indices[f.i]),
                     Slice(f.fbRow, 0, f.hunits), f.c, f.ifco)
        fb1 == SliceStore(f.fbRow, 0, r.h)
        fb2 == SliceStore(fb1, f.hunits,
                          Assign(Slice(fb1, f.hunits, f.hunits), Row(f.hBackward, f.i)))
        logp == AddDotProduct(Assign(f.logp, ConstVec(Mem(e), e.fOutputB)),
                              fb2, Mem(e), e.fOutputW)
        current == MaxIndex(logp)
        n == Len(calls[t])
    IN
    /\ pc[t] = "bw_fwd"
    /\ f.i < f.input_seq_len
    /\ bw' = [bw EXCEPT ![t].fbRow = fb2,
                        ![t].c = r.c,
                        ![t].ifco = r.ifco,
                        ![t].logp = logp,
                        ![t].i = f.i + 1]
    /\ callbacks' = [callbacks EXCEPT ![t] =
           IF (current = BEGIN \/ current = SINGLE) /\ ReportAt(f.i)
           THEN Append(@, f.startPos + f.i) ELSE @]
    /\ calls' = [calls EXCEPT ![t][n].labels = Append(@, current)]
    /\ UNCHANGED <<family, guard, singleton, ctorCount, inp, pc, sa, eng, chunks,
                   requested, arr, res>>

\* The forward loop ends: the working memory is released, breakWord returns 0.
BreakWordReturn(t) ==
    LET f == bw[t]
        n == Len(calls[t])
    IN
    /\ pc[t] = "bw_fwd"
    /\ ~(f.i < f.input_seq_len)
    /\ calls' = [calls EXCEPT ![t][n].ret = 0, ![t][n].fin = TRUE]
    /\ bw' = [bw EXCEPT ![t] = NoFrame]
    /\ pc' = [pc EXCEPT ![t] = CallCont(t)]
    /\ UNCHANGED <<family, guard, singleton, ctorCount, inp, sa, eng, callbacks, chunks,
                   requested, arr, res>>

\* ------------------------------------------------------------ maxIndex

\* maxIndex called on the array arr.
ApplyMaxIndex ==
    /\ res = -1
    /\ res' = MaxIndex(arr)
    /\ UNCHANGED <<family, guard, singleton, ctorCount, inp, pc, sa, eng, bw, callbacks,
                   calls, chunks, requested, arr>>

\* --------------------------------------------------------- specifications

Quiet ==
    /\ guard = [l \in Scripts |-> "uninit"]
    /\ singleton = [l \in Scripts |-> NoEngine]
    /\ ctorCount = [l \in Scripts |-> 0]
    /\ sa = [t \in Threads |-> NoLocals]
    /\ eng = [t \in Threads |-> NoEngine]
    /\ bw = [t \in Threads |-> NoFrame]
    /\ callbacks = [t \in Threads |-> <<>>]
    /\ calls = [t \in Threads |-> <<>>]
    /\ chunks = [t \in Threads |-> <<>>]
    /\ requested = [t \in Threads |-> <<>>]

\* The calls of one caller: a text, a range in it, and the entry point.
CallsOn(texts, modes) ==
    UNION {{[mode |-> m, text |-> x, rangeStart |-> s, rangeEnd |-> e,
             wordLang |-> "THAI"] :
               m \in modes, s \in 0..TextLen(x), e \in 0..TextLen(x)} : x \in texts}

\* The calls on the whole of a text.
WholeCallsOn(texts, modes) ==
    {[mode |-> m, text |-> x, rangeStart |-> 0, rangeEnd |-> TextLen(x),
      wordLang |-> "THAI"] : m \in modes, x \in texts}

\* One caller, on every short text and every range of it.
Init ==
    /\ Quiet
    /\ family \in ModelFamilies
    /\ \E c \in CallsOn(GenTexts \cup BoundaryTexts \cup ScenarioTexts, {"line", "word"}) :
          /\ c.rangeStart <= c.rangeEnd
          /\ inp = [t \in Threads |-> IF t = 1 THEN c ELSE NoCall]
    /\ pc = [t \in Threads |-> IF t = 1 THEN "start" ELSE "idle"]
    /\ arr = Zeros(1)
    /\ res = 0

\* One caller, on the whole of the texts around the length cap.
InitLong ==
    /\ Quiet
    /\ family \in ModelFamilies
    /\ \E c \in WholeCallsOn(LongTexts, {"line", "word"}) :
          inp = [t \in Threads |-> IF t = 1 THEN c ELSE NoCall]
    /\ pc = [t \in Threads |-> IF t = 1 THEN "start" ELSE "idle"]
    /\ arr = Zeros(1)
    /\ res = 0

\* Every thread calls BreakSALine, concurrently.
InitConc ==
    /\ Quiet
    /\ family \in ModelFamilies
    /\ inp \in [Threads -> WholeCallsOn(ConcTexts, {"line"})]
    /\ pc = [t \in Threads |-> "start"]
    /\ arr = Zeros(1)
    /\ res = 0

\* No caller: maxIndex alone, on every short array of small numbers.
InitMaxIndex ==
    /\ Quiet
    /\ family = "equal"
    /\ inp = [t \in Threads |-> NoCall]
    /\ pc = [t \in Threads |-> "idle"]
    /\ arr \in UNION {[0..(n - 1) -> (0 - MaxVal)..MaxVal] : n \in 1..MaxArr}
    /\ res = -1

Step(t) ==
    \/ Start(t)
    \/ LoopStep(t)
    \/ LoopTail(t)
    \/ LoopExit(t)
    \/ GetEngine(t)
    \/ Construct(t)
    \/ BreakWordEnter(t)
    \/ BackwardStep(t)
    \/ ForwardInit(t)
    \/ ForwardStep(t)
    \/ BreakWordReturn(t)
    \/ Return(t)

Next == \E t \in Threads : Step(t)

Spec == Init /\ [][Next]_vars

SpecLong == InitLong /\ [][Next]_vars

SpecConc == InitConc /\ [][Next]_vars

SpecMaxIndex == InitMaxIndex /\ [][ApplyMaxIndex]_vars

\* --------------------------------------------------------------- claims

LineCallers == {t \in Threads : inp[t].mode = "line"}

\* The index in callbacks[t] up to which call k of thread t has fired.
CbTo(t, k) == IF k < Len(calls[t]) THEN calls[t][k + 1].cbFrom ELSE Len(callbacks[t])

\* The positions call k of thread t has passed to the callback, in order.
CallCbs(t, k) == SubSeq(callbacks[t], calls[t][k].cbFrom + 1, CbTo(t, k))

Range(q) == {q[j] : j \in DOMAIN q}

IsBreakLabel(x) == x = BEGIN \/ x = SINGLE

\* C1: once a breakWord call made by BreakSALine has returned nonzero,
\* BreakSALine asks for no further engine, makes no further breakWord call,
\* fires no further callback, and returns that nonzero value.
C1_FailurePropagates ==
    \A t \in LineCallers : \A k \in 1..Len(calls[t]) :
        (calls[t][k].fin /\ calls[t][k].ret # 0) =>
            /\ k = Len(calls[t])
            /\ Len(requested[t]) = k
            /\ Len(callbacks[t]) = calls[t][k].cbFrom
            /\ pc[t] = "done" => sa[t].ret = calls[t][k].ret

\* C2: a breakWord call on a range longer than 2048 returns nonzero without
\* allocating working memory, decoding a label or firing a callback; a call on
\* a range of 0..2048 code points allocates and, when it returns, returns 0.
\* 2048 is accepted and 2049 is rejected.
C2_LengthCap ==
    \A t \in Threads : \A k \in 1..Len(calls[t]) :
        LET c == calls[t][k]
            L == c.endPos - c.startPos
        IN /\ L > 2048 =>
                /\ c.fin /\ c.ret # 0 /\ ~c.alloc
                /\ c.labels = <<>> /\ CallCbs(t, k) = <<>>
           /\ (0 <= L /\ L <= 2048) => (c.alloc /\ (c.fin => c.ret = 0))
           /\ (L > MaxSeqLen) = (L > 2048)

\* C2's case: one caller whose first call, on 2049 code points, was rejected
\* and whose second, on 2048, ran to its end, fired callbacks and returned 0.
C2_Witness ==
    \E t \in Threads :
        /\ Len(calls[t]) = 2
        /\ calls[t][1].endPos - calls[t][1].startPos = 2049
        /\ calls[t][1].fin /\ calls[t][1].ret = -1
        /\ calls[t][2].endPos - calls[t][2].startPos = 2048
        /\ calls[t][2].fin /\ calls[t][2].ret = 0
        /\ Len(calls[t][2].labels) = 2048
        /\ CallCbs(t, 2) # <<>>

\* C3: for every accepted breakWord call, the positions it has passed to the
\* callback are exactly the startPos + i with 1 <= i, i decoded so far, and a
\* BEGIN or SINGLE label at i, each passed once; startPos itself is never
\* passed; and a call that has returned has decoded all L positions.
C3_BreaksAreLabels ==
    \A t \in Threads : \A k \in 1..Len(calls[t]) :
        LET c == calls[t][k]
            n == Len(c.labels)
            cbs == CallCbs(t, k)
        IN c.alloc =>
            /\ Range(cbs) = {c.startPos + i : i \in {j \in 1..(n - 1) :
                                                     IsBreakLabel(c.labels[j + 1])}}
            /\ Cardinality(Range(cbs)) = Len(cbs)
            /\ c.startPos \notin Range(cbs)
            /\ c.fin => n = c.endPos - c.startPos

\* C3's case: a returned call of three positions whose first label is a break
\* label that was not reported, whose second is not a break label, and whose
\* last is a break label that was reported.
C3_Witness ==
    \E t \in Threads : \E k \in 1..Len(calls[t]) :
        LET c == calls[t][k] IN
        /\ c.fin /\ c.alloc /\ Len(c.labels) = 3
        /\ IsBreakLabel(c.labels[1])
        /\ ~IsBreakLabel(c.labels[2])
        /\ IsBreakLabel(c.labels[3])
        /\ CallCbs(t, k) = <<c.startPos + 2>>

\* C4: the positions a BreakSALine call has passed to the callback are
\* strictly increasing and lie in [rangeStart + 1, rangeEnd - 1].
C4_Monotonic ==
    \A t \in LineCallers :
        /\ \A j \in 1..Len(callbacks[t]) :
              inp[t].rangeStart + 1 <= callbacks[t][j]
              /\ callbacks[t][j] <= inp[t].rangeEnd - 1
        /\ \A j \in 1..(Len(callbacks[t]) - 1) : callbacks[t][j] < callbacks[t][j + 1]

\* C4's case: a finished BreakSALine call that flushed two chunks and got
\* callbacks from both.
C4_Witness ==
    \E t \in LineCallers :
        /\ pc[t] = "done"
        /\ Len(calls[t]) = 2
        /\ CallCbs(t, 1) # <<>>
        /\ CallCbs(t, 2) # <<>>

Flushed(t) == SelectSeq(chunks[t], LAMBDA ch : ch.flushed)

LangAt(t, p) == classify_language(TextAt(inp[t].text, p))

\* C5: the chunks a BreakSALine call has closed are contiguous from
\* rangeStart, pairwise disjoint and, once the walk is over, end at rangeEnd;
\* every position of a chunk classifies to the chunk's script; a chunk is
\* flushed iff it is not UNK and not empty; a flushed chunk is maximal; and
\* the breakWord calls are the flushed chunks in order, each on the engine of
\* the chunk's script.
C5_Partition ==
    \A t \in LineCallers :
        LET ch == chunks[t]
            fl == Flushed(t)
        IN /\ ch # <<>> => ch[1].start = inp[t].rangeStart
           /\ \A k \in 1..Len(ch) : ch[k].start <= ch[k].end
           /\ \A k \in 1..(Len(ch) - 1) : ch[k].end = ch[k + 1].start
           /\ \A j, k \in 1..Len(ch) : j < k => ch[j].end <= ch[k].start
           /\ pc[t] \in {"return", "done"} => ch[Len(ch)].end = inp[t].rangeEnd
           /\ \A k \in 1..Len(ch) :
                 /\ \A p \in ch[k].start..(ch[k].end - 1) : LangAt(t, p) = ch[k].lang
                 /\ ch[k].flushed = (ch[k].lang # "UNK" /\ ch[k].start < ch[k].end)
                 /\ ch[k].flushed =>
                       /\ ch[k].start = inp[t].rangeStart
                          \/ LangAt(t, ch[k].start - 1) # ch[k].lang
                       /\ ch[k].end = inp[t].rangeEnd
                          \/ LangAt(t, ch[k].end) # ch[k].lang
           /\ Len(calls[t]) <= Len(fl)
           /\ pc[t] \in {"return", "done"} => Len(calls[t]) = Len(fl)
           /\ \A k \in 1..Len(calls[t]) :
                 /\ calls[t][k].lang = fl[k].lang
                 /\ calls[t][k].startPos = fl[k].start
                 /\ calls[t][k].endPos = fl[k].end

\* C5's case: a finished walk over three non-empty chunks, the middle one UNK
\* and not flushed, the outer ones flushed to two different engines.
C5_Witness ==
    \E t \in LineCallers :
        /\ pc[t] = "done"
        /\ \E k \in 1..(Len(chunks[t]) - 2) :
              /\ chunks[t][k].flushed
              /\ chunks[t][k + 1].lang = "UNK"
              /\ chunks[t][k + 1].start < chunks[t][k + 1].end
              /\ chunks[t][k + 2].flushed
              /\ chunks[t][k + 2].lang # chunks[t][k].lang
        /\ Len(calls[t]) = 2

\* C6: every position p a BreakSALine call has passed to the callback has
\* text[p-1] and text[p] of the same script, and that script is not UNK.
C6_NoBreakAtTransition ==
    \A t \in LineCallers : \A j \in 1..Len(callbacks[t]) :
        LET p == callbacks[t][j] IN
        /\ p >= 1
        /\ LangAt(t, p - 1) = LangAt(t, p)
        /\ LangAt(t, p) # "UNK"

\* C6's case: a finished call on a text where Thai is followed at once by
\* Khmer and an UNK chunk follows; the Thai chunk got a callback, the Khmer
\* chunk's first position was decoded as a break label and none was reported
\* there or in the UNK chunk.
C6_Witness ==
    \E t \in LineCallers :
        /\ pc[t] = "done"
        /\ Len(calls[t]) = 2
        /\ calls[t][1].lang = "THAI" /\ calls[t][2].lang = "KHMER"
        /\ calls[t][1].endPos = calls[t][2].startPos
        /\ CallCbs(t, 1) # <<>>
        /\ IsBreakLabel(calls[t][2].labels[1])
        /\ calls[t][2].startPos \notin Range(callbacks[t])
        /\ calls[t][2].endPos < inp[t].rangeEnd

\* C7: a BreakSALine call with rangeStart = rangeEnd fires no callback, asks
\* for no engine, calls no breakWord, and returns 0.
C7_EmptyRange ==
    \A t \in LineCallers :
        inp[t].rangeStart = inp[t].rangeEnd =>
            /\ callbacks[t] = <<>>
            /\ requested[t] = <<>>
            /\ calls[t] = <<>>
            /\ pc[t] \notin {"get_engine", "construct", "bw_enter", "bw_back", "bw_fwd"}
            /\ pc[t] = "done" => sa[t].ret = 0

\* C7's case: a finished call on an empty range that starts at a Thai letter
\* inside a Thai run.
C7_Witness ==
    \E t \in LineCallers :
        /\ pc[t] = "done"
        /\ inp[t].rangeStart = inp[t].rangeEnd
        /\ 1 <= inp[t].rangeStart /\ inp[t].rangeStart < TextLen(inp[t].text)
        /\ LangAt(t, inp[t].rangeStart) = "THAI"
        /\ LangAt(t, inp[t].rangeStart - 1) = "THAI"
        /\ sa[t].ret = 0
        /\ chunks[t] # <<>>

\* C8: what maxIndex returns for a non-empty array is an index of the array
\* whose element no element exceeds and no element at a lower index equals;
\* for four equal elements it is BEGIN.
C8_ArgmaxLowestWins ==
    res # -1 =>
        /\ res \in DOMAIN arr
        /\ \A i \in DOMAIN arr : arr[i] <= arr[res]
        /\ \A i \in DOMAIN arr : i < res => arr[i] < arr[res]
        /\ (D1(arr) = 4 /\ \A i \in DOMAIN arr : arr[i] = arr[0]) => res = BEGIN

\* C8's case: maxIndex has returned for an array whose maximum is not at
\* index 0 and is taken at two indices.
C8_Witness ==
    /\ res > 0
    /\ \E i \in DOMAIN arr : i > res /\ arr[i] = arr[res]

\* C8's second case: maxIndex has returned BEGIN for four equal logits.
C8_WitnessEqual ==
    /\ res = BEGIN
    /\ D1(arr) = 4
    /\ \A i \in DOMAIN arr : arr[i] = arr[0]

InBreakWord(t) == pc[t] \in {"bw_enter", "bw_back", "bw_fwd"}

\* The state part of C9.
C9_Inv ==
    /\ \A l \in Scripts :
          /\ ctorCount[l] <= 1
          /\ (guard[l] = "done") = (ctorCount[l] = 1)
          /\ guard[l] = "done" => singleton[l] = LSTMData(l, Blob(family, l))
          /\ guard[l] = "uninit" => singleton[l] = NoEngine
          /\ guard[l] # "uninit" => \E t \in Threads : l \in Range(requested[t])
    /\ \A t \in LineCallers :
          /\ "UNK" \notin Range(requested[t])
          /\ InBreakWord(t) =>
                /\ guard[sa[t].chunk_lang] = "done"
                /\ eng[t] = singleton[sa[t].chunk_lang]

\* The step part of C9: an engine that is constructed is never written again.
C9_Stable ==
    \A l \in Scripts :
        guard[l] = "done" => (guard'[l] = "done" /\ singleton'[l] = singleton[l])

\* C9: under every interleaving of concurrent BreakSALine calls, each script's
\* engine is constructed at most once, only after a chunk of that script was
\* flushed, and is never changed afterwards; a thread inside breakWord runs on
\* the fully constructed singleton of its chunk's script; no engine is ever
\* requested for UNK.
C9_SingleConstruction == []C9_Inv /\ [][C9_Stable]_vars

\* C9's case: two threads are inside breakWord on the Thai engine at the same
\* time, one of them at the entry and one in the backward pass, and the
\* engine was constructed once.
C9_Witness ==
    \E t, u \in LineCallers :
        /\ t # u
        /\ pc[t] = "bw_enter" /\ pc[u] = "bw_back"
        /\ sa[t].chunk_lang = "THAI" /\ sa[u].chunk_lang = "THAI"
        /\ eng[t] = eng[u]
        /\ ctorCount["THAI"] = 1

RECURSIVE RefBreaks(_, _, _, _, _)
\* The positions startPos + i, 1 <= i < n, in increasing order, at which the
\* reference BiLSTM decodes BEGIN or SINGLE.
RefBreaks(mem, fData, indices, startPos, n) ==
    IF n <= 1 THEN <<>>
    ELSE LET before == RefBreaks(mem, fData, indices, startPos, n - 1) IN
         IF IsBreakLabel(RefLabel(mem, fData, indices, n - 1))
         THEN Append(before, startPos + n - 1) ELSE before

\* C10: the cell state c is all zero when the backward pass starts and when
\* the forward pass starts, and the labels breakWord has decoded and the
\* callbacks it has fired are those of a BiLSTM whose forward and backward
\* recurrences each run on a zero-initialised cell state of their own, the
\* forward hidden and cell state carried from position to position.
C10_CellReuse ==
    \A t \in Threads :
        bw[t].live =>
            LET f == bw[t]
                k == Len(calls[t])
                c == calls[t][k]
            IN /\ (pc[t] = "bw_back" /\ f.i = f.input_seq_len - 1) => f.c = Zeros(f.hunits)
               /\ (pc[t] = "bw_fwd" /\ f.i = 0) => f.c = Zeros(f.hunits)
               /\ \A i \in 1..Len(c.labels) :
                     c.labels[i] = RefLabel(Mem(eng[t]), eng[t], f.indices, i - 1)
               /\ CallCbs(t, k) =
                     RefBreaks(Mem(eng[t]), eng[t], f.indices, f.startPos, Len(c.labels))

\* C10's case: a call of at least two positions has decoded its last label
\* after a backward pass that ended in a nonzero hidden (hence cell) state,
\* with a nonzero forward cell state, break and non-break labels among those
\* decoded.
C10_Witness ==
    \E t \in Threads :
        /\ bw[t].live
        /\ pc[t] = "bw_fwd"
        /\ bw[t].input_seq_len >= 2
        /\ bw[t].i = bw[t].input_seq_len
        /\ Row(bw[t].hBackward, 0) # Zeros(bw[t].hunits)
        /\ bw[t].c # Zeros(bw[t].hunits)
        /\ \E i, j \in 2..bw[t].input_seq_len :
              /\ IsBreakLabel(calls[t][Len(calls[t])].labels[i])
              /\ ~IsBreakLabel(calls[t][Len(calls[t])].labels[j])

\* The second half of fbRow, the view the code calls backwardRow.
BackwardHalf(f) == Slice(f.fbRow, f.hunits, f.hunits)

\* C11: while breakWord's backward pass is at position i (next to be
\* visited, counting down from L-1), every row above i of hBackward is final:
\* it is the backward hidden state obtained by stepping over positions
\* L-1, ..., down to that row, from a zero state; the rows not yet visited
\* (row L-1 before the first step included) are zero, and the cell state is
\* the one left by the step of row i+1. During the forward pass every row
\* still has that value (no row is written after its own step), and the
\* second half of fbRow used for the output at a position is the row of
\* hBackward of that same position.
C11_BackwardAligned ==
    \A t \in Threads :
        bw[t].live =>
            LET f == bw[t]
                L == f.input_seq_len
                ref(r) == RefBackward(Mem(eng[t]), eng[t], f.indices, r)
            IN /\ pc[t] = "bw_back" =>
                    /\ f.i \in (-1)..(L - 1)
                    /\ \A r \in 0..(L - 1) :
                          Row(f.hBackward, r) =
                              IF r > f.i THEN ref(r).h ELSE Zeros(f.hunits)
                    /\ f.c = IF f.i = L - 1 THEN Zeros(f.hunits) ELSE ref(f.i + 1).c
               /\ pc[t] = "bw_fwd" =>
                    /\ f.i \in 0..L
                    /\ \A r \in 0..(L - 1) : Row(f.hBackward, r) = ref(r).h
                    /\ f.i >= 1 =>
                          /\ BackwardHalf(f) = Row(f.hBackward, f.i - 1)
                          /\ BackwardHalf(f) = ref(f.i - 1).h

\* C11's case: a call of at least three positions is in its forward pass,
\* past position 1; the backward rows 0, 1 and 2 are three different nonzero
\* vectors, and the second half of fbRow holds the nonzero row of the
\* position just decoded.
C11_Witness ==
    \E t \in Threads :
        /\ bw[t].live
        /\ pc[t] = "bw_fwd"
        /\ bw[t].input_seq_len >= 3
        /\ bw[t].i = 2
        /\ \A r \in 0..2 : Row(bw[t].hBackward, r) # Zeros(bw[t].hunits)
        /\ Row(bw[t].hBackward, 0) # Row(bw[t].hBackward, 1)
        /\ Row(bw[t].hBackward, 1) # Row(bw[t].hBackward, 2)
        /\ Row(bw[t].hBackward, 0) # Row(bw[t].hBackward, 2)
        /\ BackwardHalf(bw[t]) = Row(bw[t].hBackward, 1)

=============================================================================
